---- MODULE Spec2Model ----
(***************************************************************************)
(* Model of the soma-mobile-backend relay (src/server.ts): the fixed-window*)
(* rate limiter that gates every route, and the three route handlers       *)
(* (health check, meal estimation, food search).  Times are milliseconds,  *)
(* as returned by Date.now().  Numbers of a meal estimate are fixed-point, *)
(* in hundredths.                                                          *)
(***************************************************************************)
EXTENDS Integers, Sequences, FiniteSets, Bags, TLC

RATE_LIMIT_WINDOW == 60 * 1000
MAX_REQUESTS_PER_WINDOW == 30

\* Bounds of the model.
MaxWindows == 1
MaxSlack == 1
MaxInFlight == 2

VARIABLES
    now,            \* the last value Date.now() returned
    requestCounts,  \* the Map ip -> {count, resetTime}
    groqKey,        \* TRUE iff GROQ_API_KEY is a non-empty string
    pending,        \* bag of handlers suspended on an outbound call
    decision,       \* what the last arriving request got in its synchronous turn
    response,       \* the last response sent by a resumed handler
    tally,          \* history: per key, requests seen / admitted since the entry was set
    probe           \* history: an observation interval of one window's length

vars == <<now, requestCounts, groqKey, pending, decision, response, tally, probe>>

\* The instants at which requests arrive: around the window boundaries.
Times == {w * RATE_LIMIT_WINDOW + s : w \in 0..MaxWindows, s \in 0..MaxSlack}

\* A connection as the limiter sees it: req.ip and req.socket.remoteAddress,
\* "" standing for undefined.
Addrs == {[ip |-> "A", remote |-> "A"], [ip |-> "", remote |-> "B"]}

ClientKey(addr) ==
    IF addr.ip # "" THEN addr.ip
    ELSE IF addr.remote # "" THEN addr.remote
    ELSE "unknown"

Keys == {ClientKey(a) : a \in Addrs}

----------------------------------------------------------------------------
\* The rate limiter.  RateLimit is the middleware's decision as a function of
\* the map, the key and the time: the new map and whether next() is called.

RateLimitOffByOne(map, key, t) ==
    IF key \notin DOMAIN map \/ t > map[key].resetTime
    THEN [map |-> (key :> [count |-> 1, resetTime |-> t + RATE_LIMIT_WINDOW]) @@ map,
          admit |-> TRUE, reset |-> TRUE]
    ELSE IF map[key].count <= MAX_REQUESTS_PER_WINDOW
    THEN [map |-> [map EXCEPT ![key].count = @ + 1], admit |-> TRUE, reset |-> FALSE]
    ELSE [map |-> map, admit |-> FALSE, reset |-> FALSE]

RateLimitDropOthers(map, key, t) ==
    IF key \notin DOMAIN map \/ t > map[key].resetTime
    THEN [map |-> (key :> [count |-> 1, resetTime |-> t + RATE_LIMIT_WINDOW]),
          admit |-> TRUE, reset |-> TRUE]
    ELSE IF map[key].count < MAX_REQUESTS_PER_WINDOW
    THEN [map |-> [map EXCEPT ![key].count = @ + 1], admit |-> TRUE, reset |-> FALSE]
    ELSE [map |-> map, admit |-> FALSE, reset |-> FALSE]

RateLimitExtend(map, key, t) ==
    IF key \notin DOMAIN map \/ t > map[key].resetTime
    THEN [map |-> (key :> [count |-> 1, resetTime |-> t + RATE_LIMIT_WINDOW]) @@ map,
          admit |-> TRUE, reset |-> TRUE]
    ELSE IF map[key].count < MAX_REQUESTS_PER_WINDOW
    THEN [map |-> [map EXCEPT ![key].count = @ + 1], admit |-> TRUE, reset |-> FALSE]
    ELSE [map |-> [map EXCEPT ![key].resetTime = t + RATE_LIMIT_WINDOW],
          admit |-> FALSE, reset |-> FALSE]

RateLimit(map, key, t) ==
    IF key \notin DOMAIN map \/ t > map[key].resetTime
    THEN [map |-> (key :> [count |-> 1, resetTime |-> t + RATE_LIMIT_WINDOW]) @@ map,
          admit |-> TRUE, reset |-> TRUE]
    ELSE IF map[key].count < MAX_REQUESTS_PER_WINDOW
    THEN [map |-> [map EXCEPT ![key].count = @ + 1], admit |-> TRUE, reset |-> FALSE]
    ELSE [map |-> map, admit |-> FALSE, reset |-> FALSE]

----------------------------------------------------------------------------
\* JavaScript values, as far as the handlers look at them: the kind of value,
\* and for request fields whether the value is truthy.

Undef == [kind |-> "undefined"]
JNull == [kind |-> "null"]
JStr == [kind |-> "string"]
JNum(n) == [kind |-> "number", val |-> n]
JArr(elems) == [kind |-> "array", elems |-> elems]
JObj(fields) == [kind |-> "object", fields |-> fields]

\* typeof v
TypeOf(v) == IF v.kind \in {"null", "array"} THEN "object" ELSE v.kind

\* Array.isArray(v)
IsArray(v) == v.kind = "array"

\* v.name, for v neither null nor undefined (reading a property of those throws)
Get(v, name) ==
    IF v.kind = "object" /\ name \in DOMAIN v.fields THEN v.fields[name] ELSE Undef

\* Reading a property of v throws a TypeError
Nullish(v) == v.kind \in {"null", "undefined"}

\* A field of a request body or query string: its kind and its truthiness.
Field(kind, truthy) == [kind |-> kind, truthy |-> truthy]

----------------------------------------------------------------------------
\* GET /health

HealthHandlerNeedsKey ==
    IF groqKey THEN [status |-> 200, error |-> "", call |-> FALSE]
    ELSE [status |-> 500, error |-> "Groq API key not configured on server", call |-> FALSE]

HealthHandler == [status |-> 200, error |-> "", call |-> FALSE]

----------------------------------------------------------------------------
\* POST /api/estimate-meal, up to the await of the completion call.

EstimateSyncKeyFirst(body, key) ==
    IF ~key
    THEN [status |-> 500, error |-> "Groq API key not configured on server", call |-> FALSE]
    ELSE IF ~body.userInput.truthy \/ TypeOf(body.userInput) # "string"
    THEN [status |-> 400,
          error |-> "Invalid request. userInput is required and must be a string.",
          call |-> FALSE]
    ELSE [status |-> 0, error |-> "", call |-> TRUE]

EstimateSync(body, key) ==
    IF ~body.userInput.truthy \/ TypeOf(body.userInput) # "string"
    THEN [status |-> 400,
          error |-> "Invalid request. userInput is required and must be a string.",
          call |-> FALSE]
    ELSE IF ~key
    THEN [status |-> 500, error |-> "Groq API key not configured on server", call |-> FALSE]
    ELSE [status |-> 0, error |-> "", call |-> TRUE]

----------------------------------------------------------------------------
\* parseInt(s, 10) on a string given as a sequence of characters: leading
\* white space is skipped, a sign is read, then the longest run of digits;
\* what follows the digits is ignored; no digit at all gives NaN.

Digits == <<"0", "1", "2", "3", "4", "5", "6", "7", "8", "9">>

IsDigit(c) == \E i \in 1..Len(Digits) : Digits[i] = c

DigitVal(c) == (CHOOSE i \in 1..Len(Digits) : Digits[i] = c) - 1

RECURSIVE SkipWhite(_)
SkipWhite(s) == IF s # <<>> /\ Head(s) = " " THEN SkipWhite(Tail(s)) ELSE s

RECURSIVE LeadDigits(_)
LeadDigits(s) ==
    IF s = <<>> \/ ~IsDigit(Head(s)) THEN <<>> ELSE <<Head(s)>> \o LeadDigits(Tail(s))

RECURSIVE Decimal(_)
Decimal(ds) ==
    IF ds = <<>> THEN 0
    ELSE Decimal(SubSeq(ds, 1, Len(ds) - 1)) * 10 + DigitVal(ds[Len(ds)])

NaN == [nan |-> TRUE, val |-> 0]

ParseInt(s) ==
    LET t == SkipWhite(s)
        signed == t # <<>> /\ Head(t) \in {"-", "+"}
        ds == LeadDigits(IF signed THEN Tail(t) ELSE t)
    IN  IF ds = <<>> THEN NaN
        ELSE [nan |-> FALSE,
              val |-> IF signed /\ Head(t) = "-" THEN -Decimal(ds) ELSE Decimal(ds)]

\* A query parameter with a default: absent (undefined) takes the default.
Param(p, default) == IF p.given THEN p.s ELSE default

----------------------------------------------------------------------------
\* GET /api/search-foods, up to the await of fetch.

SearchSync(q) ==
    IF ~q.query.truthy \/ TypeOf(q.query) # "string"
    THEN [status |-> 400, error |-> "Invalid request. query parameter is required.",
          call |-> FALSE]
    ELSE LET pageSizeNum == ParseInt(Param(q.pageSize, <<"1", "0">>))
             pageNumberNum == ParseInt(Param(q.pageNumber, <<"1">>))
         IN  IF pageSizeNum.nan \/ pageNumberNum.nan
                \/ pageSizeNum.val < 1 \/ pageNumberNum.val < 1
             THEN [status |-> 400, error |-> "Invalid pageSize or pageNumber parameters.",
                   call |-> FALSE]
             ELSE [status |-> 0, error |-> "", call |-> TRUE]

----------------------------------------------------------------------------
\* Rounding.  A number is held in hundredths (3.25 is 325).  Math.round(x)
\* is floor(x + 0.5): ties go up, also for negative numbers.

\* Math.round(x), the result again in hundredths
RoundUnit(h) == ((h + 50) \div 100) * 100

RoundTenthKeep(h) == h

\* Math.round(x * 10) / 10, the result again in hundredths
RoundTenth(h) == ((h + 5) \div 10) * 10

RoundItem(item) ==
    [calories |-> RoundUnit(Get(item, "calories").val),
     protein |-> RoundTenth(Get(item, "protein").val),
     carbs |-> RoundTenth(Get(item, "carbs").val),
     fat |-> RoundTenth(Get(item, "fat").val)]

\* The result object; the fields that pass through unchanged (description,
\* confidence, assumptions, an item's name and quantity) are left out.
RoundEstimate(parsed) ==
    [items |-> [i \in 1..Len(Get(parsed, "items").elems) |->
                    RoundItem(Get(parsed, "items").elems[i])],
     total_calories |-> RoundUnit(Get(parsed, "total_calories").val),
     protein |-> RoundTenth(Get(parsed, "protein").val),
     carbs |-> RoundTenth(Get(parsed, "carbs").val),
     fat |-> RoundTenth(Get(parsed, "fat").val)]

----------------------------------------------------------------------------
\* POST /api/estimate-meal, from the completion's return to the response.

NoBody == [items |-> <<>>, total_calories |-> 0, protein |-> 0, carbs |-> 0, fat |-> 0]

Failure(message) == [status |-> 500, error |-> message, body |-> NoBody]

TopInvalid(parsed) ==
    \/ TypeOf(Get(parsed, "description")) # "string"
    \/ ~IsArray(Get(parsed, "items"))
    \/ TypeOf(Get(parsed, "total_calories")) # "number"
    \/ TypeOf(Get(parsed, "protein")) # "number"
    \/ TypeOf(Get(parsed, "carbs")) # "number"
    \/ TypeOf(Get(parsed, "fat")) # "number"
    \/ ~IsArray(Get(parsed, "assumptions"))

ItemInvalid(item) ==
    \/ TypeOf(Get(item, "name")) # "string"
    \/ TypeOf(Get(item, "quantity")) # "string"
    \/ TypeOf(Get(item, "calories")) # "number"
    \/ TypeOf(Get(item, "protein")) # "number"
    \/ TypeOf(Get(item, "carbs")) # "number"
    \/ TypeOf(Get(item, "fat")) # "number"

\* The validation and rounding of the parsed completion, with the catch block.
Normalize(parsed) ==
    IF Nullish(parsed) THEN Failure("TypeError")
    ELSE IF TopInvalid(parsed) THEN Failure("Invalid response format from AI service")
    ELSE LET items == Get(parsed, "items").elems
             bad == {i \in 1..Len(items) : Nullish(items[i]) \/ ItemInvalid(items[i])}
             first == CHOOSE i \in bad : \A j \in bad : i <= j
         IN  IF bad = {}
             THEN [status |-> 200, error |-> "", body |-> RoundEstimate(parsed)]
             ELSE IF Nullish(items[first]) THEN Failure("TypeError")
             ELSE Failure("Invalid item format in AI response")

\* reply.outcome: "throw" (the completion call rejects), "empty" (no content
\* in the first choice), "text" (content that is not JSON), "json".
EstimateFinish(reply) ==
    CASE reply.outcome = "throw" -> Failure("completion error")
      [] reply.outcome = "empty" -> Failure("No response from AI service")
      [] reply.outcome = "text" -> Failure("SyntaxError")
      [] reply.outcome = "json" -> Normalize(reply.parsed)

----------------------------------------------------------------------------
\* GET /api/search-foods, from fetch's return to the response.
\* reply.outcome: "throw" (fetch rejects), "status" (response.ok is false),
\* "text" (a body that is not JSON), "json".
SearchFinish(reply) ==
    CASE reply.outcome = "throw" -> Failure("fetch error")
      [] reply.outcome = "status" -> Failure("USDA API Error")
      [] reply.outcome = "text" -> Failure("SyntaxError")
      [] reply.outcome = "json" -> [status |-> 200, error |-> "", body |-> NoBody]

----------------------------------------------------------------------------
\* The inputs.

Client == CHOOSE a \in Addrs : a.ip # ""

NoInput == [none |-> TRUE]

\* req.body of the estimate route: userInput absent, null, 0, a non-zero number,
\* an object, the empty string, a non-empty string.
UserInputs ==
    {Field("undefined", FALSE), Field("null", FALSE), Field("number", FALSE),
     Field("number", TRUE), Field("object", TRUE), Field("string", FALSE),
     Field("string", TRUE)}

Bodies == {[userInput |-> u] : u \in UserInputs}

Meal == [userInput |-> Field("string", TRUE)]

\* The values of pageSize and pageNumber: absent, or a string of at most
\* MaxStrLen characters.
Alphabet == {"0", "2", "-", "a"}

MaxStrLen == 2

Strings == UNION {[1..n -> Alphabet] : n \in 0..MaxStrLen}

Absent == [given |-> FALSE, s |-> <<>>]

Given(s) == [given |-> TRUE, s |-> s]

Params == {Absent} \cup {Given(s) : s \in Strings}

Plain == {Absent, Given(<<"2">>)}

Food == Field("string", TRUE)

\* Any page parameter beside a plain one, under a valid query; and the queries
\* that are missing, empty or repeated (an array), with the default pages.
Queries ==
    {[query |-> Food, pageSize |-> a, pageNumber |-> b] :
        <<a, b>> \in (Params \X Plain) \cup (Plain \X Params)}
    \cup {[query |-> q, pageSize |-> Absent, pageNumber |-> Absent] :
            q \in {Field("undefined", FALSE), Field("string", FALSE), Field("array", TRUE)}}

Search == [query |-> Food, pageSize |-> Absent, pageNumber |-> Absent]

\* The numbers a completion carries, in hundredths: calories, protein, carbs, fat.
Rows == {<<25050, 325, 1204, -125>>, <<9949, 1995, 0, 334>>}

Item(row) ==
    JObj([name |-> JStr, quantity |-> JStr, calories |-> JNum(row[1]),
          protein |-> JNum(row[2]), carbs |-> JNum(row[3]), fat |-> JNum(row[4])])

Estimate(row, items) ==
    JObj([description |-> JStr, items |-> JArr(items), total_calories |-> JNum(row[1]),
          protein |-> JNum(row[2]), carbs |-> JNum(row[3]), fat |-> JNum(row[4]),
          confidence |-> JStr, assumptions |-> JArr(<<>>)])

Without(obj, name) == JObj([f \in DOMAIN obj.fields \ {name} |-> obj.fields[f]])

With(obj, name, v) == JObj([obj.fields EXCEPT ![name] = v])

\* An object with one field dropped or replaced by a value of another kind.
Broken(obj) ==
    {Without(obj, f) : f \in DOMAIN obj.fields}
    \cup {With(obj, f, v) : f \in DOMAIN obj.fields, v \in {JNull, JStr, JNum(100)}}

SomeRow == CHOOSE r \in Rows : TRUE

GoodItems == {Item(r) : r \in Rows}

Items == GoodItems \cup Broken(Item(SomeRow)) \cup {JNull, JStr, JNum(100)}

\* No item, one item, or two items of which one is as the prompt asks.
ItemLists ==
    {<<>>} \cup {<<i>> : i \in Items}
    \cup {<<g, i>> : g \in {Item(SomeRow)}, i \in Items}
    \cup {<<i, g>> : g \in {Item(SomeRow)}, i \in Items}

Json(v) == [outcome |-> "json", parsed |-> v]

NoJson(outcome) == [outcome |-> outcome, parsed |-> JNull]

Completions ==
    {NoJson(o) : o \in {"throw", "empty", "text"}}
    \cup {Json(Estimate(r, l)) : r \in Rows, l \in ItemLists}
    \cup {Json(v) : v \in Broken(Estimate(SomeRow, <<Item(SomeRow)>>))}
    \cup {Json(v) : v \in {JNull, JStr, JNum(100), JArr(<<>>)}}

FewCompletions == {NoJson("throw"), Json(Estimate(SomeRow, <<Item(SomeRow)>>))}

Fetches == {NoJson(o) : o \in {"throw", "status", "text"}} \cup {Json(JObj(<<>>))}

FewFetches == {NoJson("status"), Json(JObj(<<>>))}

----------------------------------------------------------------------------
\* The state machine.

Idle == [key |-> "", route |-> "", input |-> NoInput, admitted |-> FALSE, reset |-> FALSE,
         status |-> 0, error |-> "", call |-> FALSE]

Silent == [key |-> "", route |-> "", reply |-> NoJson(""), status |-> 0, error |-> "",
           body |-> NoBody]

NoProbe == [on |-> FALSE, key |-> "", start |-> 0, n |-> 0]

Init ==
    /\ now = 0
    /\ requestCounts = <<>>
    /\ groqKey \in BOOLEAN
    /\ pending = EmptyBag
    /\ decision = Idle
    /\ response = Silent
    /\ tally = [k \in Keys |-> [seen |-> 0, admitted |-> 0]]
    /\ probe = NoProbe

\* The same with the completion credential configured.
InitKeyed == Init /\ groqKey

Least(a, b) == IF a < b THEN a ELSE b

\* A request arrives at time t: the limiter, and for an admitted request the
\* route handler up to its first await (h is what the handler does there),
\* run in one turn of the event loop.
Arrive(addr, t, route, input, h) ==
    LET key == ClientKey(addr)
        r == RateLimit(requestCounts, key, t)
        go == r.admit /\ h.call
    IN  /\ t >= now
        /\ go => BagCardinality(pending) < MaxInFlight
        /\ now' = t
        /\ requestCounts' = r.map
        /\ pending' = IF go THEN pending (+) SetToBag({[key |-> key, route |-> route]})
                      ELSE pending
        /\ decision' = [key |-> key, route |-> route, input |-> input,
                        admitted |-> r.admit, reset |-> r.reset,
                        status |-> IF r.admit THEN h.status ELSE 429,
                        error |-> IF r.admit THEN h.error
                                  ELSE "Too many requests. Please try again later.",
                        call |-> go]
        /\ tally' = [tally EXCEPT ![key] =
                        IF r.reset THEN [seen |-> 1, admitted |-> 1]
                        ELSE [seen |-> Least(@.seen + 1, MAX_REQUESTS_PER_WINDOW + 1),
                              admitted |-> IF r.admit THEN @.admitted + 1 ELSE @.admitted]]
        /\ probe' = IF probe.on /\ probe.key = key /\ r.admit
                       /\ t <= probe.start + RATE_LIMIT_WINDOW
                    THEN [probe EXCEPT !.n = @ + 1]
                    ELSE probe
        /\ UNCHANGED <<groqKey, response>>

HealthRequest(addr, t) ==
    /\ t \in Times
    /\ Arrive(addr, t, "health", NoInput, HealthHandler)

EstimateRequest(addr, t, body) ==
    /\ t \in Times
    /\ Arrive(addr, t, "estimate", body, EstimateSync(body, groqKey))

SearchRequest(addr, t, q) ==
    /\ t \in Times
    /\ Arrive(addr, t, "search", q, SearchSync(q))

\* The outbound call of a suspended handler settles and the handler runs to
\* its response.
Resume(p, reply, out) ==
    /\ p \in BagToSet(pending)
    /\ pending' = pending (-) SetToBag({p})
    /\ response' = [key |-> p.key, route |-> p.route, reply |-> reply,
                    status |-> out.status, error |-> out.error, body |-> out.body]
    /\ UNCHANGED <<now, requestCounts, groqKey, decision, tally, probe>>

EstimateResume(key, reply) ==
    /\ reply.outcome \in {"throw", "empty", "text", "json"}
    /\ Resume([key |-> key, route |-> "estimate"], reply, EstimateFinish(reply))

SearchResume(key, reply) ==
    /\ reply.outcome \in {"throw", "status", "text", "json"}
    /\ Resume([key |-> key, route |-> "search"], reply, SearchFinish(reply))

\* Not a step of the server: an observer starts counting the admissions of one
\* key over the interval [t, t + RATE_LIMIT_WINDOW].
StartProbe(key, t) ==
    /\ t >= now
    /\ now' = t
    /\ probe' = [on |-> TRUE, key |-> key, start |-> t, n |-> 0]
    /\ UNCHANGED <<requestCounts, groqKey, pending, decision, response, tally>>

\* One client on every route, with requests in flight.
Next ==
    \/ \E t \in Times : HealthRequest(Client, t)
    \/ \E t \in Times : EstimateRequest(Client, t, Meal)
    \/ \E t \in Times : SearchRequest(Client, t, Search)
    \/ \E r \in FewCompletions : EstimateResume(ClientKey(Client), r)
    \/ \E r \in FewFetches : SearchResume(ClientKey(Client), r)

Spec == Init /\ [][Next]_vars

\* Two clients, the limiter alone.  (The health and search routes never read
\* the credential, and a completion is requested only with it: InitKeyed.)
NextLimiter == \E a \in Addrs, t \in Times : HealthRequest(a, t)

SpecLimiter == InitKeyed /\ [][NextLimiter]_vars

\* One client and an observer.
NextRolling ==
    \/ \E t \in Times : HealthRequest(Client, t)
    \/ \E t \in Times : StartProbe(ClientKey(Client), t)

SpecRolling == InitKeyed /\ [][NextRolling]_vars

\* One client at one instant: every request body of the estimate route, and
\* every result of a search.
NextInput ==
    \/ \E b \in Bodies : EstimateRequest(Client, 0, b)
    \/ \E r \in FewCompletions : EstimateResume(ClientKey(Client), r)
    \/ SearchRequest(Client, 0, Search)
    \/ \E r \in Fetches : SearchResume(ClientKey(Client), r)

SpecInput == Init /\ [][NextInput]_vars

\* One client at one instant: every query string of the search route.
NextSearch ==
    \/ \E q \in Queries : SearchRequest(Client, 0, q)
    \/ \E r \in FewFetches : SearchResume(ClientKey(Client), r)

SpecSearch == InitKeyed /\ [][NextSearch]_vars

\* One client at one instant: every completion.
NextReply ==
    \/ EstimateRequest(Client, 0, Meal)
    \/ \E r \in Completions : EstimateResume(ClientKey(Client), r)

SpecReply == InitKeyed /\ [][NextReply]_vars

----------------------------------------------------------------------------
\* The properties.

TooMany == "Too many requests. Please try again later."

\* C1: for a key with an entry, a request arriving after resetTime is admitted
\* and leaves the entry at count 1 and resetTime = now + 60000; one arriving no
\* later than resetTime is admitted if it is the 2nd to 30th request of the
\* window, and rejected with 429 if it is the 31st or a later one.
C1_FixedWindow ==
    [][\A k \in DOMAIN requestCounts :
            decision'.key = k =>
                IF now' > requestCounts[k].resetTime
                THEN /\ decision'.admitted
                     /\ decision'.status = 200
                     /\ requestCounts'[k] =
                            [count |-> 1, resetTime |-> now' + RATE_LIMIT_WINDOW]
                ELSE IF tally[k].seen + 1 <= 30
                THEN /\ tally[k].seen + 1 >= 2
                     /\ decision'.admitted
                     /\ decision'.status = 200
                     /\ requestCounts'[k] =
                            [count |-> tally[k].seen + 1,
                             resetTime |-> requestCounts[k].resetTime]
                ELSE /\ ~decision'.admitted
                     /\ decision'.status = 429]_vars

\* The 31st request of a window, arriving exactly at resetTime, was rejected.
C1_Witness ==
    /\ decision.status = 429
    /\ tally[decision.key].seen = 31
    /\ requestCounts[decision.key].resetTime = now

\* C2 as stated: in any interval of 60000 ms at most 30 requests of a key are
\* admitted.
C2_Rolling == probe.on => probe.n <= 30

\* C2 amended: at most 30 requests of a key are admitted between two resets of
\* its entry, and at most 59 in any interval of 60000 ms.
C2_FixedWindows ==
    /\ \A k \in Keys : tally[k].admitted <= 30
    /\ probe.on => probe.n <= 59

\* An interval of 60000 ms in which 59 requests were admitted.
C2_Witness == probe.on /\ probe.n = 59

\* C3: a request leaves the entry of every other key as it was, and the n-th
\* request of a key in its own window, n <= 30, is admitted whatever the
\* other keys have sent.
C3_Independent ==
    [][\A k \in Keys :
            /\ k # decision'.key =>
                    /\ (k \in DOMAIN requestCounts') = (k \in DOMAIN requestCounts)
                    /\ k \in DOMAIN requestCounts => requestCounts'[k] = requestCounts[k]
            /\ k = decision'.key /\ tally'[k].seen <= 30 => decision'.admitted]_vars

\* Key B's first request is admitted while key A is limited.
C3_Witness ==
    /\ decision.key = "B"
    /\ decision.admitted
    /\ tally["B"].seen = 1
    /\ tally["A"].seen = 31
    /\ now <= requestCounts["A"].resetTime

\* C4 as stated: every health check is answered 200 ok.
C4_HealthAlwaysOk == decision.route = "health" => decision.status = 200

\* C4 amended: a health check the limiter admits is answered 200 ok; the only
\* other outcome is the limiter's 429.
C4_HealthOkIfAdmitted ==
    decision.route = "health" =>
        /\ decision.admitted => decision.status = 200 /\ decision.error = ""
        /\ ~decision.admitted => decision.status = 429 /\ decision.error = TooMany
        /\ ~decision.call

\* A health check answered ok while another handler is suspended.
C4_Witness ==
    /\ decision.route = "health"
    /\ decision.status = 200
    /\ tally[decision.key].seen > 1
    /\ pending # EmptyBag

\* C5: an admitted estimate request whose userInput is absent, null, a number
\* or an object is answered 400 and issues no completion call, with or without
\* the credential.
C5_BadInput ==
    decision.route = "estimate" /\ decision.admitted
       /\ decision.input.userInput.kind \in {"undefined", "null", "number", "object"}
       => decision.status = 400 /\ ~decision.call

\* A malformed body answered 400 on a server without the credential.
C5_Witness ==
    /\ decision.route = "estimate"
    /\ decision.input.userInput.kind = "object"
    /\ decision.status = 400
    /\ ~groqKey

\* C6: a string is numeric when it is a decimal integer, with or without a
\* minus sign.
C6_Numeric(s) ==
    LET ds == IF s # <<>> /\ Head(s) = "-" THEN Tail(s) ELSE s
    IN  ds # <<>> /\ \A i \in 1..Len(ds) : IsDigit(ds[i])

C6_Value(s) ==
    IF Head(s) = "-" THEN -Decimal(Tail(s)) ELSE Decimal(s)

C6_Bad(p) == p.given /\ (~C6_Numeric(p.s) \/ C6_Value(p.s) <= 0)

\* C6: an admitted search with a valid query whose pageSize or pageNumber is
\* 0, negative or not numeric is answered 400 and issues no outbound request.
C6_BadPage ==
    /\ decision.route = "search" /\ decision.admitted
       /\ decision.input.query = Food
       /\ (C6_Bad(decision.input.pageSize) \/ C6_Bad(decision.input.pageNumber))
       => decision.status = 400 /\ ~decision.call

\* C7: the shape the estimate is expected to have.
C7_Has(v, name, kind) ==
    v.kind = "object" /\ name \in DOMAIN v.fields /\ v.fields[name].kind = kind

C7_ItemOk(item) ==
    /\ C7_Has(item, "name", "string")
    /\ C7_Has(item, "quantity", "string")
    /\ \A f \in {"calories", "protein", "carbs", "fat"} : C7_Has(item, f, "number")

C7_ShapeOk(p) ==
    /\ C7_Has(p, "description", "string")
    /\ C7_Has(p, "items", "array")
    /\ C7_Has(p, "assumptions", "array")
    /\ \A f \in {"total_calories", "protein", "carbs", "fat"} : C7_Has(p, f, "number")
    /\ \A i \in 1..Len(p.fields.items.elems) : C7_ItemOk(p.fields.items.elems[i])

\* C7: a completion whose parsed object violates the shape is answered 500 with
\* an invalid-format error, and a 200 is sent only for one that has the shape.
C7_InvalidFormat ==
    /\ response.route = "estimate"
    /\ response.reply.outcome = "json"
    /\ response.reply.parsed.kind = "object"
    =>
        IF C7_ShapeOk(response.reply.parsed)
        THEN response.status = 200
        ELSE /\ response.status = 500
             /\ response.error \in {"Invalid response format from AI service",
                                    "Invalid item format in AI response"}

\* C8: in a 200 response of the estimate route calories are whole numbers and
\* protein, carbs and fat have one decimal, in the totals and in every item,
\* and rounding them again changes nothing.
C8_Whole(h) == h % 100 = 0 /\ RoundUnit(h) = h

C8_Tenth(h) == h % 10 = 0 /\ RoundTenth(h) = h

C8_Rounded ==
    response.route = "estimate" /\ response.status = 200 =>
        /\ C8_Whole(response.body.total_calories)
        /\ \A f \in {"protein", "carbs", "fat"} : C8_Tenth(response.body[f])
        /\ \A i \in 1..Len(response.body.items) :
                /\ C8_Whole(response.body.items[i].calories)
                /\ \A f \in {"protein", "carbs", "fat"} :
                        C8_Tenth(response.body.items[i][f])

\* Protein 3.25 was returned as 3.3 and fat -1.25 as -1.2, in an item too.
C8_Witness ==
    /\ response.route = "estimate" /\ response.status = 200
    /\ Get(response.reply.parsed, "protein").val = 325
    /\ response.body.protein = 330
    /\ response.body.fat = -120
    /\ Len(response.body.items) = 2
    /\ response.body.items[2].calories = 25100

\* C9: with handlers suspended, every entry has 1 <= count <= 30 and counts
\* the requests admitted since it was set.
C9_Atomic ==
    \A k \in DOMAIN requestCounts :
        /\ requestCounts[k].count >= 1
        /\ requestCounts[k].count <= 30
        /\ tally[k].admitted = requestCounts[k].count

\* The entry is full and a request is rejected while two handlers are suspended.
C9_Witness ==
    /\ BagCardinality(pending) >= 2
    /\ decision.status = 429
    /\ requestCounts[decision.key].count = 30

\* C10: a request rejected with 429 leaves the map and the suspended handlers
\* as they were, with the count at 30, sends the limiter's error and issues no
\* outbound call; and a request arriving after the entry's resetTime is admitted.
C10_RejectKeeps ==
    [][BagCardinality(pending') >= BagCardinality(pending) =>
            /\ decision'.status = 429 =>
                    /\ requestCounts' = requestCounts
                    /\ requestCounts[decision'.key].count = 30
                    /\ pending' = pending
                    /\ response' = response
                    /\ ~decision'.call
                    /\ decision'.error = TooMany
            /\ /\ decision'.key \in DOMAIN requestCounts
               /\ now' > requestCounts[decision'.key].resetTime
               => decision'.admitted]_vars

\* An estimate request with a valid body is rejected by the limiter.
C10_Witness ==
    /\ decision.status = 429
    /\ decision.route = "estimate"
    /\ decision.input = Meal
    /\ groqKey

====
